---- MODULE Spec2Model ----
(***************************************************************************)
(* Website design scorer: the master analysis pipeline.                    *)
(*                                                                         *)
(* One request travels through master_analyze                              *)
(* (backend/src/app/api/master_analysis.py): screenshot capture and cloud  *)
(* upload, AIAnalysisService.analyze_website_design (rule based analysis,  *)
(* weighted score, vision analysis, result compilation), the scheduling of *)
(* the Google Sheets logging task, the final result, and then the detached *)
(* logging task itself.                                                    *)
(*                                                                         *)
(* Conventions                                                             *)
(*   - scores are integers 0..100; the weighted score is kept in           *)
(*     hundredths (weights are percentages) and overall_score in tenths;   *)
(*   - an exception message is a sequence of text fragments, so that a     *)
(*     wrapper "prefix: {str(e)}" is <<prefix>> \o msg;                    *)
(*   - Python's None is the value None for numbers and NoInsights /        *)
(*     NoBreakdown for dictionaries.                                       *)
(***************************************************************************)
EXTENDS Integers, Sequences, FiniteSets, TLC

(***************************************************************************)
(* Bounds of the model.                                                    *)
(***************************************************************************)
MaxIssues == 2      \* how many issues of each kind a document or image has
MaxClock == 1       \* how many seconds pass while the requests are served

(***************************************************************************)
(* Program constants.                                                      *)
(***************************************************************************)
PDF_REPORT_MIN_LENGTH == 1500
QUICK_ANALYSIS_MIN_LENGTH == 400
SizeLimitMB == 10
ResizeThresholdMB == 2
None == -1

Categories == {"typography", "color", "layout", "responsiveness", "accessibility"}

\* WeightsConfig._get_default_config, weights as percentages
DefaultWeights ==
    [c \in Categories |->
        CASE c = "typography" -> 25
          [] c = "color" -> 20
          [] c = "layout" -> 25
          [] c = "responsiveness" -> 15
          [] c = "accessibility" -> 15]

\* thresholds of _get_default_config, in hundredths like the weighted score
DefaultThresholds == [excellent |-> 9000, good |-> 7000, fair |-> 5000, poor |-> 0]

\* a weights.yaml whose weights mapping lacks one category
WeightsWithout(c) == [k \in Categories \ {c} |-> DefaultWeights[k]]

\* the configurations WeightsConfig._load_config can end up with
WeightConfigs == {DefaultWeights, WeightsWithout("color")}

(***************************************************************************)
(* Messages.                                                               *)
(***************************************************************************)
CaptureGenericMsg ==
    <<"We're experiencing issues capturing website screenshots. Please try again later.">>
AnalysisGenericMsg ==
    <<"We're experiencing technical issues with our analysis service. Please try again later.">>

\* str(e) of the exceptions raised inside analyze_website_design, by root cause
CauseMessage(cause) ==
    CASE cause = "html_http_error" ->
            <<"Critical analysis failure for url", "Failed to fetch HTML content", "HTTP error">>
      [] cause = "html_network_error" ->
            <<"Critical analysis failure for url", "Failed to fetch HTML content", "Network error">>
      [] cause = "extractors_failed" ->
            <<"Critical analysis failure for url", "Critical analysis failure - multiple components failed">>
      [] cause = "weight_missing" -> <<"KeyError", "color">>
      [] cause = "desktop_unavailable" ->
            <<"Vision analysis is required but failed", "Screenshot required for AI vision analysis but not available">>
      [] cause = "desktop_corrupted" ->
            <<"Vision analysis is required but failed", "Screenshot file is not readable or corrupted">>
      [] cause = "vision_unavailable" ->
            <<"Vision analysis is required but failed", "AI vision analysis service is currently unavailable">>
      [] cause = "encode_failed" ->
            <<"Vision analysis is required but failed", "AI vision analysis failed", "Failed to prepare screenshot for vision analysis">>
      [] cause = "transport_error" ->
            <<"Vision analysis is required but failed", "AI vision analysis failed", "transport error">>
      [] cause = "bad_status" ->
            <<"Vision analysis is required but failed", "AI vision analysis failed", "Ollama API returned status">>
      [] cause = "bad_envelope" ->
            <<"Vision analysis is required but failed", "AI vision analysis failed", "Invalid response from Ollama">>
      [] cause = "gate_empty" ->
            <<"Vision analysis is required but failed", "AI vision analysis failed", "Vision model returned empty response">>
      [] cause = "gate_short" ->
            <<"Vision analysis is required but failed", "AI vision analysis failed", "Vision model returned insufficient analysis">>
      [] cause = "gate_ungrounded" ->
            <<"Vision analysis is required but failed", "AI vision analysis failed", "Vision analysis doesn't contain visual observations">>
      [] OTHER -> <<"unknown">>

(***************************************************************************)
(* Inputs: documents, screenshot files, model responses.                   *)
(***************************************************************************)
SemanticTags == <<"main", "header", "footer", "nav">>

\* the heading tags the typography extractor looks for: h1 .. h6
HeadingLevels == 1..6

\* headings, by level and in document order, with k places where the level
\* gets more than one step deeper than the heading before it
HeadingSample(k) ==
    CASE k = 0 -> <<1, 2, 3>>
      [] k = 1 -> <<1, 3, 2>>
      [] OTHER -> <<2, 4, 2, 4>>

\* an HTML document with k issues of every kind the extractors look for:
\*   headings          the levels of the headings with text, in document order
\*   longParas         paragraphs of more than 400 characters
\*   noFallback        font-family declarations naming fewer than 2 fonts
\*   unresponsiveImgs  content images without a responsive attribute that
\*                     the responsiveness loop gets to
\*   classedImg        a content image carries a class attribute
\*   missingAlt        content images without alt text
\*   missingTags       the semantic tags the page lacks
\*   unlabeledButtons  buttons with neither text nor aria-label
Doc(k) ==
    [headings |-> HeadingSample(k), longParas |-> k, noFallback |-> k,
     viewport_meta |-> (k = 0), unresponsiveImgs |-> 3 * k,
     classedImg |-> FALSE,
     missingAlt |-> 2 * k,
     missingTags |-> {SemanticTags[i] : i \in 1..(IF k < 4 THEN k ELSE 4)},
     unlabeledButtons |-> 2 * k]

\* the pages a request is made for
Documents ==
    {Doc(k) : k \in 0..MaxIssues} \cup {Doc(4 + MaxIssues)}
    \cup {[Doc(MaxIssues) EXCEPT !.classedImg = TRUE]}

\* what the screenshot shows: palette size, saturated colours,
\* share of light pixels in percent
Pixels(k) ==
    [palette |-> 4 + k, saturated |-> k,
     whitespacePct |-> CASE k = 0 -> 40 [] k = 1 -> 20 [] OTHER -> 60]

PixelKinds == 0..MaxIssues

Magics == {"png", "jpeg", "riff", "other"}

MissingFile == [exists |-> FALSE, magic |-> "none", sizeMB |-> 0]
EmptyFile == [exists |-> TRUE, magic |-> "none", sizeMB |-> 0]

\* a file written by page.screenshot(type='png'): viewport clips are small,
\* full page captures can be of any size
FreshFiles == {[exists |-> TRUE, magic |-> "png", sizeMB |-> s] : s \in {1, 3, 11}}

\* a file a cache entry points to: ScreenshotCache.get only checks it exists
CachedFiles ==
    {EmptyFile} \cup
    {[exists |-> TRUE, magic |-> m, sizeMB |-> s] : m \in Magics, s \in {1, 3, 11}}

\* the stripped text of a model response: its length and whether it holds
\* one of the vision_indicators
Texts ==
    {[len |-> 0, grounded |-> FALSE]} \cup
    {[len |-> l, grounded |-> g] :
        l \in {40, PDF_REPORT_MIN_LENGTH - 1, PDF_REPORT_MIN_LENGTH,
               PDF_REPORT_MIN_LENGTH + 1},
        g \in BOOLEAN}

NoText == [len |-> 0, grounded |-> FALSE]

(***************************************************************************)
(* RuleBasedAnalyzer: the five extractors.                                 *)
(***************************************************************************)
Max(a, b) == IF a >= b THEN a ELSE b
Min(a, b) == IF a <= b THEN a ELSE b

\* a clamp that bounds the score from above only
ClampScoreUpperOnly(s) == Min(100, s)

\* max(0, min(100, score))
ClampScore(s) == Max(0, Min(100, s))

\* _analyze_typography collects the headings level by level: every h1 of
\* the page, then every h2, ... up to h6
RECURSIVE CollectHeadings(_, _)
CollectHeadings(headings, level) ==
    IF level > 6 THEN <<>>
    ELSE SelectSeq(headings, LAMBDA l : l = level)
            \o CollectHeadings(headings, level + 1)

\* the places of a list of levels where the next level is more than one
\* step deeper
HierarchyJumps(levels) ==
    Cardinality({i \in 1..(Len(levels) - 1) : levels[i + 1] > levels[i] + 1})

\* _analyze_typography: the number of times the hierarchy penalty is applied
HierarchyDeductions(doc) == HierarchyJumps(CollectHeadings(doc.headings, 1))

\* _analyze_typography
AnalyzeTypography(doc) ==
    ClampScore(100 - 10 * HierarchyDeductions(doc) - 5 * doc.longParas
               - 15 * doc.noFallback)

\* can PIL / ColorThief open the file
ImageReadable(file) == file.exists /\ file.magic \in {"png", "jpeg", "riff"}

\* _analyze_colors: a missing file returns the defaults, an unreadable one
\* raises inside the try and the defaults are returned as well
AnalyzeColors(file, px) ==
    IF ~ImageReadable(file) THEN 100
    ELSE ClampScore(100
            - (IF px.palette > 5 THEN (px.palette - 5) * 10 ELSE 0)
            - 15 * px.saturated)

\* _analyze_layout_whitespace
AnalyzeLayout(file, px) ==
    IF ~ImageReadable(file) THEN 100
    ELSE ClampScore(100
            - (IF px.whitespacePct < 30 THEN 30
               ELSE IF px.whitespacePct > 50 THEN 15 ELSE 0))

\* _analyze_responsiveness. The class attribute of a tag is a list, and
\* classes.lower() raises for a content image that has one: the except of
\* the extractor returns the metrics as they stand, the viewport penalty
\* applied and the image penalty not
AnalyzeResponsiveness(doc) ==
    IF doc.classedImg
    THEN 100 - (IF doc.viewport_meta THEN 0 ELSE 25)
    ELSE Max(0, 100
            - (IF doc.viewport_meta THEN 0 ELSE 25)
            - (IF doc.unresponsiveImgs > 5 THEN Min(15, doc.unresponsiveImgs) ELSE 0))

SemanticPenalty(tags) ==
    (IF "main" \in tags THEN 10 ELSE 0) + (IF "header" \in tags THEN 5 ELSE 0)
    + (IF "footer" \in tags THEN 5 ELSE 0) + (IF "nav" \in tags THEN 3 ELSE 0)

\* an accessibility extractor whose penalties grow with the number of
\* issues without a cap
AnalyzeAccessibilityUncapped(doc) ==
    Max(0, 100
            - (IF doc.missingAlt > 3 THEN doc.missingAlt * 2 ELSE 0)
            - SemanticPenalty(doc.missingTags)
            - (IF doc.unlabeledButtons > 2 THEN doc.unlabeledButtons * 3 ELSE 0))

\* _analyze_accessibility
AnalyzeAccessibility(doc) ==
    Max(0, 100
            - (IF doc.missingAlt > 3 THEN Min(doc.missingAlt * 2, 15) ELSE 0)
            - SemanticPenalty(doc.missingTags)
            - (IF doc.unlabeledButtons > 2 THEN Min(doc.unlabeledButtons * 3, 10) ELSE 0))

\* the extractors that raised out of their own try/except: every extractor
\* body is wrapped in "except Exception" and returns its metrics
FailedAnalyses(doc, file, px) == {}

\* RuleBasedAnalyzer.analyze after a successful fetch: the metrics, or the
\* critical failure when 3 or more extractors failed
Analyze(doc, file, px) ==
    IF Cardinality(FailedAnalyses(doc, file, px)) >= 3
    THEN [ok |-> FALSE, scores |-> [c \in Categories |-> None]]
    ELSE [ok |-> TRUE,
          scores |->
            [c \in Categories |->
                CASE c = "typography" -> AnalyzeTypography(doc)
                  [] c = "color" -> AnalyzeColors(file, px)
                  [] c = "layout" -> AnalyzeLayout(file, px)
                  [] c = "responsiveness" -> AnalyzeResponsiveness(doc)
                  [] c = "accessibility" -> AnalyzeAccessibility(doc)]]

\* the extractors whose try block was left through its except: ColorThief
\* and PIL raise on a file they cannot read, the responsiveness loop raises
\* on a content image with a class attribute
ExtractorErrors(doc, file, px) ==
    {c \in {"color", "layout"} : file.exists /\ ~ImageReadable(file)}
    \cup {c \in {"responsiveness"} : doc.classedImg}

\* the score a category of a new DesignMetrics starts with
DefaultCategoryScore(c) == 100

\* the violation lists of the DesignMetrics, by the length each has when
\* the extractors have returned
ViolationLists(doc, file, px) ==
    [typography_contrast_violations |-> 0,
     color_harmony_violations |-> 0,
     color_saturation_violations |-> IF ImageReadable(file) THEN px.saturated ELSE 0,
     color_contrast_violations |-> 0,
     layout_grid_violations |-> 0,
     responsiveness_breakpoint_violations |-> 0,
     responsiveness_touch_target_violations |-> 0,
     responsiveness_image_scaling_issues |-> doc.unresponsiveImgs,
     accessibility_missing_alt_text |-> doc.missingAlt,
     accessibility_aria_violations |-> doc.unlabeledButtons,
     accessibility_semantic_html_issues |-> Cardinality(doc.missingTags),
     accessibility_focus_order_issues |-> 0]

(***************************************************************************)
(* Score aggregation (analyze_website_design, WeightsConfig).              *)
(***************************************************************************)
\* weights[...] raises KeyError when a category is missing
WeightsComplete(weights) == Categories \subseteq DOMAIN weights

\* a weighted sum that leaves the last category out
WeightedScoreFourTerms(scores, weights) ==
    scores["typography"] * weights["typography"]
    + scores["color"] * weights["color"]
    + scores["layout"] * weights["layout"]
    + scores["responsiveness"] * weights["responsiveness"]

\* the weighted score in hundredths
WeightedScore(scores, weights) ==
    scores["typography"] * weights["typography"]
    + scores["color"] * weights["color"]
    + scores["layout"] * weights["layout"]
    + scores["responsiveness"] * weights["responsiveness"]
    + scores["accessibility"] * weights["accessibility"]

\* round(weighted_score, 1) in tenths. The weighted score is a binary float:
\* a value ending in 5 hundredths lies next to the tie and goes either way.
RoundTenths(w100) ==
    IF w100 % 10 = 5 THEN {w100 \div 10, w100 \div 10 + 1}
    ELSE IF w100 % 10 < 5 THEN {w100 \div 10}
    ELSE {w100 \div 10 + 1}

\* WeightsConfig.get_score_category
GetScoreCategory(w100, thresholds) ==
    IF w100 >= thresholds.excellent THEN "excellent"
    ELSE IF w100 >= thresholds.good THEN "good"
    ELSE IF w100 >= thresholds.fair THEN "fair"
    ELSE "poor"

\* a grade ladder whose steps start above the boundary
GetScoreGradeAboveBoundary(w100) ==
    IF w100 > 9000 THEN "A"
    ELSE IF w100 > 8000 THEN "B"
    ELSE IF w100 > 7000 THEN "C"
    ELSE IF w100 > 6000 THEN "D"
    ELSE "F"

\* AIAnalysisService._get_score_grade
GetScoreGrade(w100) ==
    IF w100 >= 9000 THEN "A"
    ELSE IF w100 >= 8000 THEN "B"
    ELSE IF w100 >= 7000 THEN "C"
    ELSE IF w100 >= 6000 THEN "D"
    ELSE "F"

\* AIAnalysisService._get_critical_issues: the entries added for low scores
LowScoreIssues(scores) ==
    (IF scores["accessibility"] < 30 THEN {"Poor accessibility compliance"} ELSE {})
    \cup (IF scores["responsiveness"] < 30 THEN {"Poor mobile experience"} ELSE {})

\* AIAnalysisService._count_total_issues
CountTotalIssues(lists) ==
    lists.typography_contrast_violations
    + lists.color_harmony_violations
    + lists.layout_grid_violations
    + lists.responsiveness_touch_target_violations
    + lists.accessibility_missing_alt_text
    + lists.accessibility_aria_violations

(***************************************************************************)
(* Vision analysis (analyze_website_design, OllamaClient).                 *)
(***************************************************************************)
\* the desktop check accepting every format _encode_image_base64 accepts
DesktopCheckAnyImage(hasDesktop, file) ==
    IF ~hasDesktop \/ ~file.exists THEN "desktop_unavailable"
    ELSE IF file.magic \in {"png", "jpeg", "riff"} THEN "ok"
    ELSE "desktop_corrupted"

\* analyze_website_design, the desktop screenshot check before the model is
\* contacted: "ok", or the cause of the failure
DesktopCheck(hasDesktop, file) ==
    IF ~hasDesktop \/ ~file.exists THEN "desktop_unavailable"
    ELSE IF file.magic \in {"png", "jpeg"} THEN "ok"
    ELSE "desktop_corrupted"

\* OllamaClient._encode_image_base64: does it return the encoded image
EncodeImageOk(file) ==
    /\ file.exists
    /\ file.sizeMB # 0
    /\ ~(file.sizeMB > SizeLimitMB)
    /\ \/ file.sizeMB > ResizeThresholdMB /\ ImageReadable(file)
       \/ ~(file.sizeMB > ResizeThresholdMB) /\ file.magic \in {"png", "jpeg", "riff"}

\* the gate without its grounding vocabulary check
VisionGateNoGrounding(text, min_length) ==
    IF text.len = 0 THEN "gate_empty"
    ELSE IF text.len < min_length THEN "gate_short"
    ELSE "ok"

\* the gate rejecting a text of exactly the minimum length
VisionGateStrictLength(text, min_length) ==
    IF text.len = 0 THEN "gate_empty"
    ELSE IF text.len <= min_length THEN "gate_short"
    ELSE IF ~text.grounded THEN "gate_ungrounded"
    ELSE "ok"

\* the validation gate of generate_vision_analysis on the stripped text:
\* "ok", or the cause of the rejection
VisionGate(text, min_length) ==
    IF text.len = 0 THEN "gate_empty"
    ELSE IF text.len < min_length THEN "gate_short"
    ELSE IF ~text.grounded THEN "gate_ungrounded"
    ELSE "ok"

\* one minimum length for every analysis type
GetMinLengthOfReport(analysis_type) == PDF_REPORT_MIN_LENGTH

\* PromptConfig.get_min_length
GetMinLength(analysis_type) ==
    IF analysis_type = "quick" THEN QUICK_ANALYSIS_MIN_LENGTH
    ELSE PDF_REPORT_MIN_LENGTH

(***************************************************************************)
(* State.                                                                  *)
(***************************************************************************)
VARIABLES
    request,            \* MasterAnalysisRequest: include_mobile, auto_log_to_sheets
    site,               \* what a capture of each viewport of the url yields
    weights,            \* weights_config: the weights loaded at start
    pc,                 \* where master_analyze stands
    capture,            \* outcome of the capture of each viewport
    deskFile,           \* the desktop screenshot file on disk
    pixels,             \* what the desktop screenshot shows
    good_screenshots,   \* master_analyze: good_screenshots is not empty
    result,             \* master_analyze: the AnalysisResult
    metrics,            \* analyze_website_design: the five category scores
    weighted_score,     \* analyze_website_design: weighted score, hundredths
    failure,            \* root cause of the failure of the analysis stage
    response,           \* what the POST to the vision endpoint came back with
    events,             \* the external calls and stages started, in order
    sheets,             \* google_sheets_service and the logging task
    call,               \* the last function applied on its own: name, input, output
    clock,              \* the wall clock, in whole seconds
    capture_mode,       \* ScreenshotService.capture_mode of the shared service
    cache,              \* ScreenshotCache: what is cached per (url, viewport)
    soup,               \* RuleBasedAnalyzer.soup of the shared analyzer
    reqs,               \* the requests served side by side
    running             \* the request whose coroutine holds the event loop

vars == <<request, site, weights, pc, capture, deskFile, pixels, good_screenshots,
          result, metrics, weighted_score, failure, response, events, sheets,
          call, clock, capture_mode, cache, soup, reqs, running>>

\* the state the service instances share between requests, and the requests
shared == <<clock, capture_mode, cache, soup, reqs, running>>

Devices == {"desktop", "mobile"}
ErrorKeys == {"screenshot_capture", "ai_analysis", "master_analysis"}
NoMsg == <<>>

NoBreakdown == [c \in Categories |-> None]

NoInsights ==
    [present |-> FALSE, status |-> "none", overall_score |-> None,
     score_category |-> "none", score_grade |-> "none",
     scores_breakdown |-> NoBreakdown, vision_analysis |-> FALSE,
     content |-> NoText]

NoResponse == [kind |-> "none", text |-> NoText]

NoCall == [fn |-> "none", in |-> <<>>, out |-> <<>>]

HasError(r, key) == r.errors[key] # NoMsg

\* the requests that can be in flight side by side, and the urls they name
Requests == {"first", "second"}
Urls == {"u1", "u2"}

\* CAPTURE_VIEWPORT_ONLY, CAPTURE_FULL_PAGE
CaptureModes == {"viewport", "full_page"}

NoRequest ==
    [kind |-> "none", url |-> "none", capture_mode |-> "none", pc |-> "idle",
     analysis_id |-> None, device |-> "none", mode_used |-> "none",
     images |-> [d \in Devices |-> "none"], failed |-> FALSE,
     typography |-> None, responsiveness |-> None, accessibility |-> None]

\* the services as the application starts: ScreenshotService.__init__ sets
\* the viewport mode, the cache directory is empty, no page is parsed
SharedIdle ==
    /\ clock = 0
    /\ capture_mode = "viewport"
    /\ cache = [u \in Urls |-> [d \in Devices |-> "none"]]
    /\ soup = "none"
    /\ reqs = [r \in Requests |-> NoRequest]
    /\ running = "none"

Init ==
    /\ request \in [include_mobile : BOOLEAN, auto_log_to_sheets : BOOLEAN]
    /\ site \in [Devices -> {"fresh", "cached", "failed"}]
    /\ weights \in WeightConfigs
    /\ pc = "capture_desktop"
    /\ capture = [d \in Devices |-> "pending"]
    /\ deskFile = MissingFile
    /\ pixels = 0
    /\ good_screenshots = FALSE
    /\ result = [status |-> "processing", completed_at |-> FALSE,
                 screenshots |-> <<>>, ai_insights |-> NoInsights,
                 overall_score |-> None, scores_breakdown |-> NoBreakdown,
                 uploads |-> {}, errors |-> [k \in ErrorKeys |-> NoMsg]]
    /\ metrics = NoBreakdown
    /\ weighted_score = None
    /\ failure = "none"
    /\ response = NoResponse
    /\ events = <<>>
    /\ sheets \in [initialized : BOOLEAN, task : {"none"}, rows : {<<>>},
                   raised : {FALSE}]
    /\ call = NoCall
    /\ SharedIdle

(***************************************************************************)
(* Step 1: screenshots with integrated upload.                             *)
(***************************************************************************)
\* capture_screenshot raises, capture_both_viewports and
\* capture_and_store_both_viewports re-raise, and the except branch of step 1
\* of master_analyze records the message
CaptureFailed(device) ==
    /\ capture' = [capture EXCEPT ![device] = "failed"]
    /\ result' = [result EXCEPT
            !.screenshots = Append(@, [device |-> "desktop", error |-> TRUE]),
            !.errors["screenshot_capture"] =
                <<"Multi-viewport capture and storage failed">> \o CaptureGenericMsg]
    /\ good_screenshots' = FALSE
    /\ pc' = "schedule"
    /\ UNCHANGED <<deskFile, pixels>>

\* a capture stage that returns as soon as one viewport is captured
StageAfterAnyCapture(device) == "store"

\* capture_both_viewports: what follows the successful capture of a
\* viewport; the mobile capture is awaited after the desktop capture, and
\* the result is returned after both
StageAfterCapture(device) ==
    IF device = "desktop" THEN "capture_mobile" ELSE "store"

\* capture_screenshot(url, "desktop")
CaptureDesktop ==
    /\ pc = "capture_desktop"
    /\ UNCHANGED <<call, shared>>
    /\ events' = Append(events, "capture_desktop")
    /\ \/ /\ site["desktop"] = "failed"
          /\ CaptureFailed("desktop")
       \/ /\ site["desktop"] = "fresh"
          /\ \E f \in FreshFiles, k \in PixelKinds :
                /\ deskFile' = f
                /\ pixels' = k
          /\ capture' = [capture EXCEPT !["desktop"] = "fresh"]
          /\ pc' = StageAfterCapture("desktop")
          /\ UNCHANGED <<result, good_screenshots>>
       \/ /\ site["desktop"] = "cached"
          /\ \E f \in CachedFiles, k \in PixelKinds :
                /\ deskFile' = f
                /\ pixels' = k
          /\ capture' = [capture EXCEPT !["desktop"] = "cached"]
          /\ pc' = StageAfterCapture("desktop")
          /\ UNCHANGED <<result, good_screenshots>>
    /\ UNCHANGED <<request, site, weights, metrics, weighted_score, failure,
                   response, sheets>>

\* capture_screenshot(url, "mobile"), awaited after the desktop capture
CaptureMobile ==
    /\ pc = "capture_mobile"
    /\ UNCHANGED <<call, shared>>
    /\ events' = Append(events, "capture_mobile")
    /\ \/ /\ site["mobile"] = "failed"
          /\ CaptureFailed("mobile")
       \/ /\ site["mobile"] # "failed"
          /\ capture' = [capture EXCEPT !["mobile"] = site["mobile"]]
          /\ pc' = StageAfterCapture("mobile")
          /\ UNCHANGED <<result, good_screenshots, deskFile, pixels>>
    /\ UNCHANGED <<request, site, weights, metrics, weighted_score, failure,
                   response, sheets>>

\* the devices master_analyze lists in result.screenshots
ListedDevices(include_mobile) ==
    IF include_mobile THEN <<"desktop", "mobile">> ELSE <<"desktop">>

\* capture_and_store_both_viewports after the captures (cloud upload of
\* each screenshot, a failed upload is kept as storage_error) and the
\* processing of its result by master_analyze
StoreAndCollect ==
    /\ pc = "store"
    /\ UNCHANGED <<call, shared>>
    /\ \E uploaded \in SUBSET Devices :
          /\ ("desktop" \in uploaded) => deskFile.exists
          /\ result' = [result EXCEPT
                !.screenshots =
                    [i \in DOMAIN ListedDevices(request.include_mobile) |->
                        [device |-> ListedDevices(request.include_mobile)[i],
                         error |-> FALSE]],
                !.uploads =
                    {d \in uploaded :
                        d = "desktop" \/ request.include_mobile}]
    /\ good_screenshots' = TRUE
    /\ pc' = "rule_analysis"
    /\ UNCHANGED <<request, site, weights, capture, deskFile, pixels, metrics,
                   weighted_score, failure, response, events, sheets>>

\* the cache directory is cleaned while the request waits on the network
ScreenshotFileRemoved ==
    /\ pc \in {"rule_analysis", "health"}
    /\ UNCHANGED <<call, shared>>
    /\ deskFile.exists
    /\ deskFile' = MissingFile
    /\ UNCHANGED <<request, site, weights, pc, capture, pixels, good_screenshots,
                   result, metrics, weighted_score, failure, response, events,
                   sheets>>

(***************************************************************************)
(* Step 2: AIAnalysisService.analyze_website_design.                       *)
(***************************************************************************)
\* the screenshot the rule analysis reads: desktop preferred, else mobile
SelectScreenshot(hasDesktop, hasMobile) ==
    IF hasDesktop THEN "desktop" ELSE IF hasMobile THEN "mobile" ELSE "none"

\* an analysis that sends the screenshot without asking for the model's health
StageAfterWithoutHealth(stage) ==
    CASE stage = "rule_analysis" -> "aggregate"
      [] stage = "aggregate" -> "desktop_check"
      [] stage = "desktop_check" -> "generate"
      [] stage = "health" -> "generate"
      [] stage = "generate" -> "schedule"

\* analyze_website_design: the stage that follows a stage that succeeded
StageAfter(stage) ==
    CASE stage = "rule_analysis" -> "aggregate"
      [] stage = "aggregate" -> "desktop_check"
      [] stage = "desktop_check" -> "health"
      [] stage = "health" -> "generate"
      [] stage = "generate" -> "schedule"

\* the outer except re-raising the exception it caught
ExposedRootCause(cause) == CauseMessage(cause)

\* the outer except of analyze_website_design: what str(e) the caller gets
\* for an exception raised inside with the given root cause
ExposedAnalysisError(cause) == AnalysisGenericMsg

\* a vision client that sends the request again after a transport error
StageAfterFailureWithRetry(cause) ==
    IF cause = "transport_error" THEN "generate" ELSE "schedule"

\* an exception of the analysis that leaves the handler waiting
StageAfterFailureNeverResumed(cause) == "waiting"

\* where master_analyze goes on after an exception of the analysis: no
\* stage is tried again, step 3 follows
StageAfterFailure(cause) == "schedule"

\* an exception leaves analyze_website_design and master_analyze records it
\* under "ai_analysis"; ai_insights and the scores stay unset
FailAnalysis(cause) ==
    /\ failure' = cause
    /\ result' = [result EXCEPT !.errors["ai_analysis"] = ExposedAnalysisError(cause)]
    /\ pc' = StageAfterFailure(cause)

\* RuleBasedAnalyzer.analyze: HTML fetch, then the five extractors
RuleAnalysis ==
    /\ pc = "rule_analysis"
    /\ UNCHANGED <<call, shared>>
    /\ good_screenshots
    /\ SelectScreenshot(capture["desktop"] \in {"fresh", "cached"},
                        capture["mobile"] \in {"fresh", "cached"}) = "desktop"
    /\ events' = Append(events, "rule_analysis")
    /\ \/ /\ \E cause \in {"html_http_error", "html_network_error"} :
                FailAnalysis(cause)
          /\ UNCHANGED metrics
       \/ \E doc \in Documents :
            LET m == Analyze(doc, deskFile, Pixels(pixels)) IN
            IF m.ok
            THEN /\ metrics' = m.scores
                 /\ pc' = StageAfter("rule_analysis")
                 /\ UNCHANGED <<result, failure>>
            ELSE /\ FailAnalysis("extractors_failed")
                 /\ UNCHANGED metrics
    /\ UNCHANGED <<request, site, weights, capture, deskFile, pixels,
                   good_screenshots, weighted_score, response, sheets>>

\* the weighted score from weights_config.get_weights()
Aggregate ==
    /\ pc = "aggregate"
    /\ UNCHANGED <<call, shared>>
    /\ \/ /\ WeightsComplete(weights)
          /\ weighted_score' = WeightedScore(metrics, weights)
          /\ pc' = StageAfter("aggregate")
          /\ UNCHANGED <<result, failure>>
       \/ /\ ~WeightsComplete(weights)
          /\ FailAnalysis("weight_missing")
          /\ UNCHANGED weighted_score
    /\ UNCHANGED <<request, site, weights, capture, deskFile, pixels,
                   good_screenshots, metrics, response, events, sheets>>

\* the desktop screenshot must exist and start with PNG or JPEG magic bytes
VisionPrecheck ==
    /\ pc = "desktop_check"
    /\ UNCHANGED <<call, shared>>
    /\ LET check == DesktopCheck(capture["desktop"] \in {"fresh", "cached"}, deskFile) IN
        \/ /\ check = "ok"
           /\ pc' = StageAfter("desktop_check")
           /\ UNCHANGED <<result, failure>>
        \/ /\ check # "ok"
           /\ FailAnalysis(check)
    /\ UNCHANGED <<request, site, weights, capture, deskFile, pixels,
                   good_screenshots, metrics, weighted_score, response, events,
                   sheets>>

\* OllamaClient.check_health
CheckHealth ==
    /\ pc = "health"
    /\ UNCHANGED <<call, shared>>
    /\ events' = Append(events, "health_check")
    /\ \/ /\ pc' = StageAfter("health")
          /\ UNCHANGED <<result, failure>>
       \/ FailAnalysis("vision_unavailable")
    /\ UNCHANGED <<request, site, weights, capture, deskFile, pixels,
                   good_screenshots, metrics, weighted_score, response, sheets>>

\* what the POST to /api/generate can come back with
Responses == {"transport_error", "bad_status", "bad_envelope"}

\* OllamaClient.generate_vision_analysis: encode the image, POST it, pass the
\* text through the validation gate; then the result is compiled and
\* master_analyze copies the scores
GenerateVision ==
    /\ pc = "generate"
    /\ UNCHANGED <<call, shared>>
    /\ \/ /\ ~EncodeImageOk(deskFile)
          /\ FailAnalysis("encode_failed")
          /\ UNCHANGED <<events, response>>
       \/ /\ EncodeImageOk(deskFile)
          /\ events' = Append(events, "vision_generate")
          /\ \/ \E r \in Responses :
                    /\ response' = [kind |-> r, text |-> NoText]
                    /\ FailAnalysis(r)
             \/ \E text \in Texts :
                  LET gate == VisionGate(text, GetMinLength("pdf_report")) IN
                  /\ response' = [kind |-> "text", text |-> text]
                  /\ IF gate # "ok"
                     THEN FailAnalysis(gate)
                     ELSE /\ \E overall \in RoundTenths(weighted_score) :
                               result' = [result EXCEPT
                                   !.ai_insights =
                                       [present |-> TRUE, status |-> "completed",
                                        overall_score |-> overall,
                                        score_category |->
                                           GetScoreCategory(weighted_score,
                                                            DefaultThresholds),
                                        score_grade |-> GetScoreGrade(weighted_score),
                                        scores_breakdown |-> metrics,
                                        vision_analysis |-> TRUE,
                                        content |-> text],
                                   !.scores_breakdown = metrics,
                                   !.overall_score = overall]
                          /\ pc' = StageAfter("generate")
                          /\ UNCHANGED failure
    /\ UNCHANGED <<request, site, weights, capture, deskFile, pixels,
                   good_screenshots, metrics, weighted_score, sheets>>

(***************************************************************************)
(* Steps 3 and 4: logging task, final result.                              *)
(***************************************************************************)
\* step 3 looking at the request flag alone
ScheduleWheneverRequested(good, auto_log_to_sheets) == auto_log_to_sheets

\* master_analyze step 3: is the Sheets logging task added
ShouldScheduleLogging(good, auto_log_to_sheets) == good /\ auto_log_to_sheets

\* step 4 leaving the status of a request without screenshots untouched
FinalStatusOnlyOnSuccess(good) == IF good THEN "completed" ELSE "processing"

\* master_analyze step 4: the final status
FinalStatus(good) == IF good THEN "completed" ELSE "failed"

\* steps 3 and 4 of master_analyze, up to "return result"
ScheduleAndFinalize ==
    /\ pc = "schedule"
    /\ UNCHANGED <<call, shared>>
    /\ IF ShouldScheduleLogging(good_screenshots, request.auto_log_to_sheets)
       THEN /\ sheets' = [sheets EXCEPT !.task = "scheduled"]
            /\ events' = Append(events, "sheets_scheduled")
       ELSE UNCHANGED <<sheets, events>>
    /\ result' = [result EXCEPT !.status = FinalStatus(good_screenshots),
                                !.completed_at = TRUE]
    /\ pc' = "returned"
    /\ UNCHANGED <<request, site, weights, capture, deskFile, pixels,
                   good_screenshots, metrics, weighted_score, failure, response>>

\* the row _log_to_sheets_background builds from ai_insights
SheetRow(ai_insights) ==
    [overall_score |-> IF ai_insights.present THEN ai_insights.overall_score ELSE 0,
     has_analysis |-> ai_insights.present]

\* GoogleSheetsService.log_analysis_result: an exception of append_row is
\* caught and False is returned
LogAnalysisResult(appendOk) == [success |-> appendOk, raised |-> FALSE]

\* the try/except of _log_to_sheets_background: does an exception raised
\* inside the try block leave the task
LoggingTaskRaises(raisedInside) == FALSE

\* a logging task that marks the request failed when no row was written
ResultMarkedByLogging(r, logged) ==
    IF logged THEN r
    ELSE [r EXCEPT !.status = "failed",
                   !.errors["master_analysis"] = <<"Failed to log to Google Sheets">>]

\* what the logging task does to the AnalysisResult that was returned
ResultAfterLogging(r, logged) == r

\* _log_to_sheets_background, run after the response was sent
LogToSheetsBackground ==
    /\ pc = "returned"
    /\ UNCHANGED <<call, shared>>
    /\ sheets.task = "scheduled"
    /\ \/ \* initialize() returns False: the task returns
          /\ ~sheets.initialized
          /\ sheets' = [sheets EXCEPT !.task = "done"]
          /\ result' = ResultAfterLogging(result, FALSE)
       \/ \* append_row succeeds
          /\ sheets' = [sheets EXCEPT
                !.initialized = TRUE, !.task = "done",
                !.rows = Append(@, SheetRow(result.ai_insights)),
                !.raised = LoggingTaskRaises(LogAnalysisResult(TRUE).raised)]
          /\ result' = ResultAfterLogging(result, LogAnalysisResult(TRUE).success)
       \/ \* append_row raises: log_analysis_result returns False
          /\ sheets' = [sheets EXCEPT
                !.initialized = TRUE, !.task = "done",
                !.raised = LoggingTaskRaises(LogAnalysisResult(FALSE).raised)]
          /\ result' = ResultAfterLogging(result, LogAnalysisResult(FALSE).success)
    /\ UNCHANGED <<request, site, weights, pc, capture, deskFile, pixels,
                   good_screenshots, metrics, weighted_score, failure, response,
                   events>>

Next ==
    \/ CaptureDesktop
    \/ CaptureMobile
    \/ StoreAndCollect
    \/ ScreenshotFileRemoved
    \/ RuleAnalysis
    \/ Aggregate
    \/ VisionPrecheck
    \/ CheckHealth
    \/ GenerateVision
    \/ ScheduleAndFinalize
    \/ LogToSheetsBackground

Spec == Init /\ [][Next]_vars

\* the steps of the handler itself: each one ends in an await of an external
\* call, and the event loop resumes the coroutine once that call has
\* returned or timed out
HandlerStep ==
    \/ CaptureDesktop
    \/ CaptureMobile
    \/ StoreAndCollect
    \/ RuleAnalysis
    \/ Aggregate
    \/ VisionPrecheck
    \/ CheckHealth
    \/ GenerateVision
    \/ ScheduleAndFinalize

\* the pipeline when every external call returns or times out
LiveSpec == Spec /\ WF_vars(HandlerStep)

(***************************************************************************)
(* The functions of the analysis service applied on their own, to inputs   *)
(* drawn from bounded sets: one application at a time, recorded in call.   *)
(***************************************************************************)
\* how many issues of one kind a page has
IssueCounts == {0, 1, MaxIssues, 4 + MaxIssues, 20 + MaxIssues}

\* the headings of a page in document order: up to MaxIssues + 1 of them
HeadingLists ==
    UNION {[1..n -> HeadingLevels] : n \in 0..(MaxIssues + 1)}

\* a page that differs from the page without issues in what the
\* typography extractor reads
TypographyDoc(h, p, f) ==
    [Doc(0) EXCEPT !.headings = h, !.longParas = p, !.noFallback = f]

\* a page that differs from the page without issues in what the
\* responsiveness and the accessibility extractors read
MarkupDoc(v, u, c, a, t) ==
    [Doc(0) EXCEPT !.viewport_meta = v, !.unresponsiveImgs = u,
                   !.classedImg = c, !.missingAlt = a, !.missingTags = t,
                   !.unlabeledButtons = a]

\* the screenshot path handed to analyze: any file, or none
ScreenshotFiles == {MissingFile} \cup CachedFiles

\* category scores handed to the aggregation
ScoreSamples == {0, 1, 50, 99, 100}

\* weights.yaml contents whose weights sum to 1.0, as percentages
WeightSamples ==
    {DefaultWeights,
     [c \in Categories |-> 20],
     [c \in Categories |-> IF c = "accessibility" THEN 100 ELSE 0]}

\* weighted scores in hundredths
WeightedScores == 0..10000

\* thresholds sections of weights.yaml
ThresholdConfigs ==
    {DefaultThresholds,
     [excellent |-> 9500, good |-> 8500, fair |-> 6500, poor |-> 0]}

\* the analysis types generate_vision_analysis is called with
AnalysisTypes == {"pdf_report", "quick", "detailed"}

\* stripped response texts around the minimum lengths
GateTexts ==
    Texts \cup
    {[len |-> l, grounded |-> g] :
        l \in {QUICK_ANALYSIS_MIN_LENGTH - 1, QUICK_ANALYSIS_MIN_LENGTH,
               QUICK_ANALYSIS_MIN_LENGTH + 1},
        g \in BOOLEAN}

FnInit ==
    /\ request = [include_mobile |-> TRUE, auto_log_to_sheets |-> TRUE]
    /\ site = [d \in Devices |-> "fresh"]
    /\ weights = DefaultWeights
    /\ pc = "capture_desktop"
    /\ capture = [d \in Devices |-> "pending"]
    /\ deskFile = MissingFile
    /\ pixels = 0
    /\ good_screenshots = FALSE
    /\ result = [status |-> "processing", completed_at |-> FALSE,
                 screenshots |-> <<>>, ai_insights |-> NoInsights,
                 overall_score |-> None, scores_breakdown |-> NoBreakdown,
                 uploads |-> {}, errors |-> [k \in ErrorKeys |-> NoMsg]]
    /\ metrics = NoBreakdown
    /\ weighted_score = None
    /\ failure = "none"
    /\ response = NoResponse
    /\ events = <<>>
    /\ sheets = [initialized |-> FALSE, task |-> "none", rows |-> <<>>,
                 raised |-> FALSE]
    /\ call = NoCall
    /\ SharedIdle

pipeline == <<request, site, weights, pc, capture, deskFile, pixels,
              good_screenshots, result, metrics, weighted_score, failure,
              response, events, sheets>>

\* what RuleBasedAnalyzer.analyze returns for a page, a screenshot path and
\* the content of the screenshot
AnalyzeCall(doc, file, px) ==
    LET m == Analyze(doc, file, px)
    IN [fn |-> "analyze",
        in |-> [doc |-> doc, file |-> file, px |-> px],
        out |-> [ok |-> m.ok, scores |-> m.scores,
                 errors |-> ExtractorErrors(doc, file, px),
                 failed |-> FailedAnalyses(doc, file, px),
                 lists |-> ViolationLists(doc, file, px)]]

\* RuleBasedAnalyzer.analyze on a fetched page and a screenshot path
ApplyAnalyze ==
    /\ call = NoCall
    /\ \/ \E h \in HeadingLists, p \in IssueCounts, f \in IssueCounts :
             \E file \in FreshFiles :
                call' = AnalyzeCall(TypographyDoc(h, p, f), file, Pixels(0))
       \/ \E v \in BOOLEAN, u \in IssueCounts, c \in BOOLEAN, a \in IssueCounts :
             \E t \in SUBSET {SemanticTags[i] : i \in DOMAIN SemanticTags} :
                \E file \in ScreenshotFiles, k \in PixelKinds :
                   call' = AnalyzeCall(MarkupDoc(v, u, c, a, t), file, Pixels(k))
    /\ UNCHANGED <<pipeline, shared>>

\* _count_total_issues on the DesignMetrics the rule analysis returned
ApplyCountTotalIssues ==
    /\ call.fn = "analyze"
    /\ call.out.ok
    /\ call' = [fn |-> "count_total_issues",
                in |-> call.out.lists,
                out |-> CountTotalIssues(call.out.lists)]
    /\ UNCHANGED <<pipeline, shared>>

\* the weighted score and round(weighted_score, 1)
ApplyAggregate ==
    /\ call = NoCall
    /\ \E scores \in [Categories -> ScoreSamples], w \in WeightSamples :
          \E overall \in RoundTenths(WeightedScore(scores, w)) :
             call' = [fn |-> "aggregate",
                      in |-> [scores |-> scores, weights |-> w],
                      out |-> [weighted_score |-> WeightedScore(scores, w),
                               overall_score |-> overall]]
    /\ UNCHANGED <<pipeline, shared>>

\* the main scores of the compiled result, computed from one weighted score:
\* round(weighted_score, 1), get_score_category and _get_score_grade
ApplyGrading ==
    /\ call = NoCall
    /\ \E w100 \in WeightedScores, thresholds \in ThresholdConfigs :
          \E overall \in RoundTenths(w100) :
             call' = [fn |-> "grading",
                      in |-> [weighted_score |-> w100, thresholds |-> thresholds],
                      out |-> [overall_score |-> overall,
                               score_category |-> GetScoreCategory(w100, thresholds),
                               score_grade |-> GetScoreGrade(w100)]]
    /\ UNCHANGED <<pipeline, shared>>

\* the validation gate of generate_vision_analysis on a response whose
\* transport succeeded
ApplyVisionGate ==
    /\ call = NoCall
    /\ \E text \in GateTexts, analysis_type \in AnalysisTypes :
          LET gate == VisionGate(text, GetMinLength(analysis_type)) IN
          call' = [fn |-> "vision_gate",
                   in |-> [text |-> text, analysis_type |-> analysis_type],
                   out |-> [returned |-> gate = "ok", cause |-> gate]]
    /\ UNCHANGED <<pipeline, shared>>

\* the caller is done with the value
Return ==
    /\ call # NoCall
    /\ call' = NoCall
    /\ UNCHANGED <<pipeline, shared>>

FnNext ==
    \/ ApplyAnalyze
    \/ ApplyCountTotalIssues
    \/ ApplyAggregate
    \/ ApplyGrading
    \/ ApplyVisionGate
    \/ Return

FnSpec == FnInit /\ [][FnNext]_vars

(***************************************************************************)
(* Requests served side by side by one process: they share the event loop, *)
(* the ScreenshotService (capture mode, cache) and the RuleBasedAnalyzer.  *)
(* A coroutine runs until it awaits something that suspends it.            *)
(***************************************************************************)
\* the page behind a url
DocOf(url) == IF url = "u1" THEN Doc(0) ELSE Doc(MaxIssues)

\* every stage of a request ends in an await that suspends the coroutine
YieldsAfterEveryStage(stage) == TRUE

\* does the coroutine give up the event loop at the end of the stage: the
\* cache read, the browser and the HTTP client are awaited; between the
\* assignment of self.soup and the extractors nothing is awaited
YieldsAfter(stage) == stage # "parsed"

\* the request may take a step: no other coroutine holds the event loop
MayRun(r) == running \in {"none", r}

\* the event loop after a stage of request r
LoopAfter(r, stage) == IF YieldsAfter(stage) THEN "none" ELSE r

\* analysis_id = f"master_{int(datetime.now().timestamp())}"
AnalysisId(now) == now

\* POST /api/v1/master/analyze-complete arrives: the id is taken from the
\* clock and the desktop capture begins with the cache lookup
StartMaster(r) ==
    /\ reqs[r].pc = "idle"
    /\ MayRun(r)
    /\ \E url \in Urls :
          reqs' = [reqs EXCEPT ![r] =
                     [NoRequest EXCEPT !.kind = "master", !.url = url,
                                       !.analysis_id = AnalysisId(clock),
                                       !.pc = "lookup", !.device = "desktop"]]
    /\ running' = LoopAfter(r, "start")
    /\ UNCHANGED <<pipeline, call, clock, capture_mode, cache, soup>>

\* POST /capture arrives: a valid capture_mode is stored in the shared
\* service, then the desktop capture begins with the cache lookup
StartCapture(r) ==
    /\ reqs[r].pc = "idle"
    /\ MayRun(r)
    /\ \E url \in Urls, mode \in CaptureModes \cup {"other"} :
          /\ reqs' = [reqs EXCEPT ![r] =
                        [NoRequest EXCEPT !.kind = "capture", !.url = url,
                                          !.capture_mode = mode,
                                          !.pc = "lookup", !.device = "desktop"]]
          /\ capture_mode' = IF mode \in CaptureModes THEN mode ELSE capture_mode
    /\ running' = LoopAfter(r, "start")
    /\ UNCHANGED <<pipeline, call, clock, cache, soup>>

\* what a request does once the capture of a viewport is done
AfterViewport(q) ==
    IF q.device = "desktop" THEN [q EXCEPT !.pc = "lookup", !.device = "mobile"]
    ELSE IF q.kind = "master" THEN [q EXCEPT !.pc = "fetching", !.device = "none"]
    ELSE [q EXCEPT !.pc = "done", !.device = "none"]

\* ScreenshotCache.get returns: a hit is handed to the request as it is, a
\* miss starts the browser with the capture mode the service holds now
CacheGetReturns(r) ==
    /\ reqs[r].pc = "lookup"
    /\ MayRun(r)
    /\ LET q == reqs[r]
           hit == cache[q.url][q.device]
       IN reqs' = [reqs EXCEPT ![r] =
                     IF hit # "none"
                     THEN AfterViewport([q EXCEPT !.images[q.device] = hit])
                     ELSE [q EXCEPT !.pc = "capturing", !.mode_used = capture_mode]]
    /\ running' = LoopAfter(r, "lookup")
    /\ UNCHANGED <<pipeline, call, clock, capture_mode, cache, soup>>

\* _capture_screenshot_with_playwright returns and the result is cached,
\* or it raises and the capture of both viewports fails
PlaywrightReturns(r) ==
    /\ reqs[r].pc = "capturing"
    /\ MayRun(r)
    /\ LET q == reqs[r] IN
       \/ /\ reqs' = [reqs EXCEPT ![r] =
                        AfterViewport([q EXCEPT !.images[q.device] = q.mode_used])]
          /\ cache' = [cache EXCEPT ![q.url][q.device] = q.mode_used]
       \/ /\ reqs' = [reqs EXCEPT ![r] =
                        [q EXCEPT !.pc = "done", !.failed = TRUE, !.device = "none"]]
          /\ UNCHANGED cache
    /\ running' = LoopAfter(r, "capturing")
    /\ UNCHANGED <<pipeline, call, clock, capture_mode, soup>>

\* a cache entry expires or its screenshot file is gone
CacheEntryExpires ==
    /\ \E u \in Urls, d \in Devices :
          /\ cache[u][d] # "none"
          /\ cache' = [cache EXCEPT ![u][d] = "none"]
    /\ UNCHANGED <<pipeline, call, clock, capture_mode, soup, reqs, running>>

\* analyze_html_content: the GET returns and the page is parsed into
\* self.soup of the shared analyzer, or the fetch raises
FetchReturns(r) ==
    /\ reqs[r].pc = "fetching"
    /\ MayRun(r)
    /\ \/ /\ soup' = reqs[r].url
          /\ reqs' = [reqs EXCEPT ![r].pc = "parsed"]
          /\ running' = LoopAfter(r, "parsed")
       \/ /\ reqs' = [reqs EXCEPT ![r].pc = "done", ![r].failed = TRUE]
          /\ running' = LoopAfter(r, "fetching")
          /\ UNCHANGED soup
    /\ UNCHANGED <<pipeline, call, clock, capture_mode, cache>>

\* analyze: the extractors of the HTML categories read self.soup
RunExtractors(r) ==
    /\ reqs[r].pc = "parsed"
    /\ MayRun(r)
    /\ reqs' = [reqs EXCEPT ![r] =
                  [@ EXCEPT !.typography = AnalyzeTypography(DocOf(soup)),
                            !.responsiveness = AnalyzeResponsiveness(DocOf(soup)),
                            !.accessibility = AnalyzeAccessibility(DocOf(soup)),
                            !.pc = "done"]]
    /\ running' = LoopAfter(r, "extract")
    /\ UNCHANGED <<pipeline, call, clock, capture_mode, cache, soup>>

\* a second passes
Tick ==
    /\ clock < MaxClock
    /\ clock' = clock + 1
    /\ UNCHANGED <<pipeline, call, capture_mode, cache, soup, reqs, running>>

SharedInit == FnInit

SharedNext ==
    \/ \E r \in Requests : StartMaster(r)
    \/ \E r \in Requests : StartCapture(r)
    \/ \E r \in Requests : CacheGetReturns(r)
    \/ \E r \in Requests : PlaywrightReturns(r)
    \/ CacheEntryExpires
    \/ \E r \in Requests : FetchReturns(r)
    \/ \E r \in Requests : RunExtractors(r)
    \/ Tick

SharedSpec == SharedInit /\ [][SharedNext]_vars

(***************************************************************************)
(* Properties.                                                             *)
(***************************************************************************)
InEvents(e) == \E i \in DOMAIN events : events[i] = e

Captured(d) == capture[d] \in {"fresh", "cached"}

Returned == pc = "returned"

\* the root causes that are failures of the vision stage
VisionFailures ==
    {"desktop_unavailable", "desktop_corrupted", "vision_unavailable",
     "encode_failed", "transport_error", "bad_status", "bad_envelope",
     "gate_empty", "gate_short", "gate_ungrounded"}

\* the desktop file is one the vision stage may send: present, PNG or JPEG
DesktopImageUsable == deskFile.exists /\ deskFile.magic \in {"png", "jpeg"}

\* C1: both screenshots captured, rule analysis succeeded, vision stage
\* failed: the returned result has status "failed"
C1_VisionFailureFailsRequest ==
    (/\ Returned
     /\ \A d \in Devices : Captured(d)
     /\ metrics # NoBreakdown
     /\ failure \in VisionFailures)
    => result.status = "failed"

\* C2: a result carries overall_score, scores_breakdown or ai_insights only
\* if the model's text passed the validation gate in this request, and a
\* vision failure leaves all three unset
C2_ScoresOnlyAfterGate ==
    /\ (\/ result.overall_score # None
        \/ result.scores_breakdown # NoBreakdown
        \/ result.ai_insights.present)
       => /\ response.kind = "text"
          /\ response.text.len # 0
          /\ response.text.len >= PDF_REPORT_MIN_LENGTH
          /\ response.text.grounded
          /\ failure = "none"
    /\ failure \in VisionFailures
       => /\ result.overall_score = None
          /\ result.scores_breakdown = NoBreakdown
          /\ ~result.ai_insights.present

C2_Witness ==
    /\ Returned
    /\ result.overall_score # None
    /\ result.ai_insights.present
    /\ response.text.len = PDF_REPORT_MIN_LENGTH

\* C3: both captures succeed, the five extractors return scores, the health
\* check passes and the model returns a grounded report of 1500 characters
\* or more: status "completed", overall_score within 0..100 (default
\* weights), llm_analysis.vision_analysis true
C3_EndToEndSuccess ==
    (/\ Returned
     /\ \A d \in Devices : Captured(d)
     /\ \A c \in Categories : metrics[c] # None
     /\ weights = DefaultWeights
     /\ InEvents("health_check")
     /\ response.kind = "text"
     /\ response.text.grounded
     /\ response.text.len >= PDF_REPORT_MIN_LENGTH)
    => /\ result.status = "completed"
       /\ result.overall_score \in 0..1000
       /\ result.ai_insights.overall_score = result.overall_score
       /\ result.ai_insights.vision_analysis

C3_Witness ==
    /\ Returned
    /\ \A d \in Devices : Captured(d)
    /\ weights = DefaultWeights
    /\ response.kind = "text"
    /\ response.text.grounded
    /\ response.text.len = PDF_REPORT_MIN_LENGTH
    /\ result.status = "completed"
    /\ result.ai_insights.vision_analysis

\* C4: when the capture fails for both viewports the result is "failed"
\* with the error key "screenshot_capture", and neither rule analysis,
\* vision analysis nor the Sheets logging task is started
C4_CaptureFailureStopsPipeline ==
    (\A d \in Devices : site[d] = "failed")
    => /\ ~InEvents("rule_analysis")
       /\ ~InEvents("health_check")
       /\ ~InEvents("vision_generate")
       /\ ~InEvents("sheets_scheduled")
       /\ sheets.task = "none"
       /\ sheets.rows = <<>>
       /\ Returned => /\ result.status = "failed"
                      /\ HasError(result, "screenshot_capture")

C4_Witness ==
    /\ Returned
    /\ \A d \in Devices : site[d] = "failed"
    /\ request.auto_log_to_sheets
    /\ result.status = "failed"

\* C5: the desktop capture fails, the mobile capture would succeed: the
\* capture stage counts as successful and rule analysis runs
C5_MobileKeepsPipelineAlive ==
    (/\ Returned
     /\ site["desktop"] = "failed"
     /\ site["mobile"] # "failed")
    => /\ ~HasError(result, "screenshot_capture")
       /\ InEvents("rule_analysis")

\* C6: the vision endpoint is only called with a desktop screenshot that
\* exists and starts with PNG or JPEG magic bytes, and an analysis whose
\* desktop image is missing or unreadable fails
C6_VisionNeedsDesktopImage ==
    /\ [][(events' # events /\ events'[Len(events')] = "vision_generate")
            => DesktopImageUsable]_vars
    /\ []((/\ pc \in {"schedule", "returned"}
           /\ good_screenshots
           /\ ~DesktopImageUsable)
          => /\ ~result.ai_insights.present
             /\ result.overall_score = None
             /\ HasError(result, "ai_analysis"))

C6_Witness ==
    /\ Returned
    /\ Captured("mobile")
    /\ deskFile.exists
    /\ deskFile.magic = "riff"
    /\ failure = "desktop_corrupted"
    /\ ~InEvents("vision_generate")

\* C7: once returned, the status, errors and scores of the result are the
\* same whatever the logging task does, and the task never raises
C7_LoggingNeverChangesResult ==
    /\ [][Returned =>
            /\ result'.status = result.status
            /\ result'.errors = result.errors
            /\ result'.overall_score = result.overall_score
            /\ result'.scores_breakdown = result.scores_breakdown]_vars
    /\ [](~sheets.raised)

C7_Witness ==
    /\ sheets.task = "done"
    /\ sheets.rows = <<>>
    /\ result.status = "completed"

\* C8: the logging task is scheduled only for a request whose analysis
\* succeeded and whose auto_log_to_sheets flag is set, and no row is logged
\* for a request whose analysis failed
C8_LoggingOnlyAfterSuccess ==
    /\ sheets.task # "none"
       => /\ request.auto_log_to_sheets
          /\ result.ai_insights.present
          /\ failure = "none"
    /\ \A i \in DOMAIN sheets.rows : sheets.rows[i].has_analysis

\* C9: whatever the root cause of a failure of the analysis stage, the
\* message in the result's errors is the one fixed generic text
C9_GenericAnalysisError ==
    (failure # "none" /\ pc \in {"schedule", "returned"})
    => /\ result.errors["ai_analysis"] = AnalysisGenericMsg
       /\ result.errors["master_analysis"] = NoMsg
       /\ result.errors["screenshot_capture"] = NoMsg

C9_Witness ==
    /\ Returned
    /\ failure = "gate_ungrounded"
    /\ CauseMessage(failure) # CauseMessage("html_network_error")
    /\ HasError(result, "ai_analysis")

\* C10: an error raised while aggregating the scores (a weight missing from
\* the configuration) ends the request "failed" with the original message
\* under errors["master_analysis"]
C10_AggregationErrorPreserved ==
    (Returned /\ failure = "weight_missing")
    => /\ result.status = "failed"
       /\ result.errors["master_analysis"] = CauseMessage("weight_missing")

\* C16: a readable desktop screenshot above the 10MB ceiling is downscaled
\* and sent to the vision endpoint: once the health check has passed, its
\* size alone does not make the vision call fail
C16_OversizedImageIsDownscaled ==
    (/\ pc \in {"schedule", "returned"}
     /\ InEvents("health_check")
     /\ failure # "vision_unavailable"
     /\ DesktopImageUsable
     /\ deskFile.sizeMB > SizeLimitMB)
    => /\ InEvents("vision_generate")
       /\ failure # "encode_failed"

\* C18: with include_mobile false the mobile capture is not required:
\* when the desktop capture succeeds the capture stage succeeds and the
\* analysis runs whatever a mobile capture would yield, and no mobile
\* screenshot is listed in the result
C18_MobileNotRequired ==
    (/\ Returned
     /\ ~request.include_mobile
     /\ site["desktop"] # "failed")
    => /\ ~HasError(result, "screenshot_capture")
       /\ InEvents("rule_analysis")
       /\ \A i \in DOMAIN result.screenshots :
             result.screenshots[i].device # "mobile"

\* C20: rule analysis never starts before the outcome of the desktop and
\* of the mobile capture is known
C20_BothCapturesAwaited ==
    (\/ InEvents("rule_analysis")
     \/ pc \in {"rule_analysis", "aggregate", "desktop_check", "health", "generate"})
    => \A d \in Devices : capture[d] # "pending"

C20_Witness ==
    /\ InEvents("rule_analysis")
    /\ capture["desktop"] = "fresh"
    /\ capture["mobile"] = "cached"
    /\ metrics # NoBreakdown

\* the place of the first occurrence of e in the events, 0 if there is none
FirstEvent(e) ==
    IF InEvents(e) THEN CHOOSE i \in DOMAIN events :
                            events[i] = e /\ \A j \in 1..(i - 1) : events[j] # e
    ELSE 0

\* the root causes that are failures of the rule analysis
RuleFailures == {"html_http_error", "html_network_error", "extractors_failed"}

\* C21: the generate call to the vision endpoint happens only after the
\* rule analysis returned metrics, the weighted score was computed and the
\* health check returned true; after a failed rule analysis the vision
\* endpoint is never contacted
C21_StagesInOrder ==
    /\ InEvents("vision_generate")
         => /\ metrics # NoBreakdown
            /\ weighted_score # None
            /\ InEvents("rule_analysis")
            /\ InEvents("health_check")
            /\ FirstEvent("rule_analysis") < FirstEvent("health_check")
            /\ FirstEvent("health_check") < FirstEvent("vision_generate")
            /\ failure # "vision_unavailable"
    /\ failure \in RuleFailures
         => /\ ~InEvents("health_check")
            /\ ~InEvents("vision_generate")

C21_Witness ==
    /\ Returned
    /\ InEvents("vision_generate")
    /\ failure = "gate_short"
    /\ weighted_score # None

\* the failures of the generate call: transport, status, envelope, gate
GenerateFailures ==
    {"transport_error", "bad_status", "bad_envelope",
     "gate_empty", "gate_short", "gate_ungrounded"}

\* C22: the generate request is sent at most once per analysis request;
\* after a failure of the call nothing is sent again and the analysis has
\* failed for good
C22_NoRetry ==
    /\ Cardinality({i \in DOMAIN events : events[i] = "vision_generate"}) <= 1
    /\ failure \in GenerateFailures
         => /\ pc \in {"schedule", "returned"}
            /\ ~result.ai_insights.present
            /\ result.overall_score = None
            /\ HasError(result, "ai_analysis")

C22_Witness ==
    /\ Returned
    /\ failure = "transport_error"
    /\ Cardinality({i \in DOMAIN events : events[i] = "vision_generate"}) = 1
    /\ sheets.task = "done"

C27_EventuallyReturns == <>(Returned /\ result.status \in {"completed", "failed"})

\* a request that went through every stage, the vision call included, has
\* returned
C27_Witness ==
    /\ Returned
    /\ InEvents("vision_generate")
    /\ result.ai_insights.present

\* do a category label and a letter grade agree with an overall score given
\* in tenths, on the default ladders
AgreesWithOverall(overall, category, grade) ==
    /\ overall >= 900 => (grade = "A" /\ category = "excellent")
    /\ overall >= 800 => grade \in {"A", "B"}
    /\ overall >= 700 => (grade \in {"A", "B", "C"} /\ category \in {"excellent", "good"})
    /\ overall >= 600 => grade \in {"A", "B", "C", "D"}
    /\ overall >= 500 => category \in {"excellent", "good", "fair"}

(***************************************************************************)
(* Properties of the functions applied on their own (FnSpec).              *)
(***************************************************************************)
\* C11: whatever the page and the screenshot file (any number of issues,
\* a missing file, an exception inside an extractor), each of the five
\* scores the rule analysis returns lies within 0..100
C11_ExtractorScoresInRange ==
    (call.fn = "analyze" /\ call.out.ok)
    => \A c \in Categories : call.out.scores[c] \in 0..100

C11_Witness ==
    /\ call.fn = "analyze"
    /\ call.out.ok
    /\ call.out.errors = {"color", "layout", "responsiveness"}
    /\ call.in.doc.missingAlt > 20
    /\ call.out.scores["accessibility"] < 60

\* C12: when 3 or more of the 5 extractors fail the rule analysis is
\* aborted; when 1 or 2 fail it returns metrics in which every failed
\* category has the default score of a new DesignMetrics
C12_ExtractorFailurePolicy ==
    call.fn = "analyze"
    => /\ Cardinality(call.out.errors) >= 3 => ~call.out.ok
       /\ Cardinality(call.out.errors) \in 1..2
            => /\ call.out.ok
               /\ \A c \in call.out.errors :
                     call.out.scores[c] = DefaultCategoryScore(c)

\* the sum over the categories of score times weight, in hundredths
RECURSIVE SumOver(_, _, _)
SumOver(cs, scores, w) ==
    IF cs = {} THEN 0
    ELSE LET c == CHOOSE x \in cs : TRUE
         IN scores[c] * w[c] + SumOver(cs \ {c}, scores, w)

\* C13: with weights that sum to 1.0 the overall score is the weighted sum
\* of the five category scores rounded to one decimal; it is 100.0 when
\* every score is 100, 0.0 when every score is 0, and within 0..100 always
C13_OverallScoreIsRoundedWeightedSum ==
    (call.fn = "aggregate" /\ SumOver(Categories, [c \in Categories |-> 1], call.in.weights) = 100)
    => LET exact == SumOver(Categories, call.in.scores, call.in.weights)
           overall == call.out.overall_score
       IN /\ 10 * overall - exact \in -5..5
          /\ overall \in 0..1000
          /\ (\A c \in Categories : call.in.scores[c] = 100) => overall = 1000
          /\ (\A c \in Categories : call.in.scores[c] = 0) => overall = 0

C13_Witness ==
    /\ call.fn = "aggregate"
    /\ call.in.weights = DefaultWeights
    /\ \A c \in Categories : call.in.scores[c] = 100
    /\ call.out.overall_score = 1000

\* C14: for every weighted score s the category is excellent from 90, good
\* from 70, fair from 50 and poor below (default thresholds), the grade is
\* A from 90, B from 80, C from 70, D from 60 and F below, and the grade is
\* the same whatever category thresholds are configured
C14_CategoryAndGradeLadders ==
    call.fn = "grading"
    => LET s == call.in.weighted_score IN
       /\ call.in.thresholds = DefaultThresholds
            => call.out.score_category =
                 (CASE s >= 9000 -> "excellent"
                    [] s < 9000 /\ s >= 7000 -> "good"
                    [] s < 7000 /\ s >= 5000 -> "fair"
                    [] s < 5000 -> "poor")
       /\ call.out.score_grade =
             (CASE s >= 9000 -> "A"
                [] s < 9000 /\ s >= 8000 -> "B"
                [] s < 8000 /\ s >= 7000 -> "C"
                [] s < 7000 /\ s >= 6000 -> "D"
                [] s < 6000 -> "F")

C14_Witness ==
    /\ call.fn = "grading"
    /\ call.in.thresholds # DefaultThresholds
    /\ call.in.weighted_score = 9000
    /\ call.out.score_grade = "A"
    /\ call.out.score_category = "good"

\* the minimum character length of an analysis type
MinLengthOf(analysis_type) == IF analysis_type = "quick" THEN 400 ELSE 1500

\* C15 as stated: the text is returned exactly when it is not empty, its
\* length exceeds the minimum length of the analysis type, and it holds a
\* term of the grounding vocabulary
C15_GateAsStated ==
    call.fn = "vision_gate"
    => (call.out.returned
        <=> /\ call.in.text.len # 0
            /\ call.in.text.len > MinLengthOf(call.in.analysis_type)
            /\ call.in.text.grounded)

\* C15, amended: the text is returned exactly when it is not empty, its
\* length is at least the minimum length of the analysis type, and it
\* holds a term of the grounding vocabulary; any other text makes the call
\* fail although the transport succeeded
C15_VisionGate ==
    call.fn = "vision_gate"
    => (call.out.returned
        <=> /\ call.in.text.len # 0
            /\ call.in.text.len >= MinLengthOf(call.in.analysis_type)
            /\ call.in.text.grounded)

C15_Witness ==
    /\ call.fn = "vision_gate"
    /\ call.in.analysis_type = "quick"
    /\ call.in.text.len = 400
    /\ call.in.text.grounded
    /\ call.out.returned

\* C17: total_issues_found is the sum of the lengths of all the violation
\* lists of the five categories, the saturation violations, the image
\* scaling issues and the semantic HTML issues included
C17_TotalIssuesCountsEveryList ==
    call.fn = "count_total_issues"
    => call.out =
         call.in.typography_contrast_violations
         + call.in.color_harmony_violations
         + call.in.color_saturation_violations
         + call.in.color_contrast_violations
         + call.in.layout_grid_violations
         + call.in.responsiveness_breakpoint_violations
         + call.in.responsiveness_touch_target_violations
         + call.in.responsiveness_image_scaling_issues
         + call.in.accessibility_missing_alt_text
         + call.in.accessibility_aria_violations
         + call.in.accessibility_semantic_html_issues
         + call.in.accessibility_focus_order_issues

\* C19: the typography extractor walks the headings in document order and
\* deducts 10 points once for every heading whose level is more than one
\* step deeper than the heading right before it in the document
C19_HierarchyInDocumentOrder ==
    (/\ call.fn = "analyze"
     /\ call.out.ok
     /\ call.in.doc.longParas = 0
     /\ call.in.doc.noFallback = 0)
    => call.out.scores["typography"]
         = Max(0, 100 - 10 * HierarchyJumps(call.in.doc.headings))

\* C23: given a screenshot file that exists but cannot be read as an image,
\* the colour and the layout extractor raise, which analyze counts toward
\* the abort, and return no score; a missing file yields the best-effort
\* score without raising
C23_UnreadableImageRaises ==
    call.fn = "analyze"
    => /\ (call.in.file.exists /\ ~ImageReadable(call.in.file))
            => {"color", "layout"} \subseteq call.out.failed
       /\ ~call.in.file.exists
            => /\ call.out.failed \cap {"color", "layout"} = {}
               /\ call.out.ok

\* C28: in every compiled result score_category and score_grade agree with
\* the reported overall_score: with default thresholds a result reporting
\* overall_score >= 90.0 has grade "A" and category "excellent", and
\* likewise at the 80, 70, 60 and 50 boundaries.
C28_LabelsAgreeWithOverallScore ==
    (call.fn = "grading" /\ call.in.thresholds = DefaultThresholds) =>
        AgreesWithOverall(call.out.overall_score, call.out.score_category,
                          call.out.score_grade)

\* C29: for every HTML document the accessibility score is at least 52 and
\* the responsiveness score at least 60, so the critical issues "Poor
\* accessibility compliance" and "Poor mobile experience", which need a
\* score below 30, never appear.
C29_NoLowScoreIssues ==
    (call.fn = "analyze" /\ call.out.ok) =>
        /\ call.out.scores["accessibility"] >= 52
        /\ call.out.scores["responsiveness"] >= 60
        /\ LowScoreIssues(call.out.scores) = {}

\* a page with every deduction at its cap
C29_Witness ==
    /\ call.fn = "analyze"
    /\ call.out.ok
    /\ call.in.doc.missingAlt > 20
    /\ call.in.doc.unresponsiveImgs > 20
    /\ call.out.scores["accessibility"] = 52
    /\ call.out.scores["responsiveness"] = 60


(***************************************************************************)
(* Properties of the requests served side by side, checked under           *)
(* SharedSpec.                                                             *)
(***************************************************************************)
\* the request has run its rule-based extractors
Extracted(r) ==
    reqs[r].kind = "master" /\ reqs[r].pc = "done" /\ ~reqs[r].failed

\* C24: when two analysis requests interleave at their await points on the
\* shared RuleBasedAnalyzer, the typography, responsiveness and
\* accessibility metrics of each request are computed from the document of
\* its own URL.
C24_MetricsFromOwnDocument ==
    \A r \in Requests :
        Extracted(r) =>
            /\ reqs[r].typography = AnalyzeTypography(DocOf(reqs[r].url))
            /\ reqs[r].responsiveness = AnalyzeResponsiveness(DocOf(reqs[r].url))
            /\ reqs[r].accessibility = AnalyzeAccessibility(DocOf(reqs[r].url))

\* both requests analysed different pages: the second has its metrics
\* although the analyzer holds the page of the first
C24_Witness ==
    /\ Extracted("first") /\ Extracted("second")
    /\ reqs["first"].url = "u1" /\ reqs["second"].url = "u2"
    /\ AnalyzeAccessibility(DocOf("u1")) # AnalyzeAccessibility(DocOf("u2"))
    /\ soup = "u1"


\* C25: a capture request with capture_mode "viewport" yields viewport-clip
\* screenshots only, whatever the other requests did: neither a capture mode
\* stored by another request nor a full-page screenshot cached under the
\* same url and viewport determines its images.
C25_ViewportRequestGetsViewportClips ==
    \A r \in Requests :
        (reqs[r].kind = "capture" /\ reqs[r].capture_mode = "viewport") =>
            \A d \in Devices : reqs[r].images[d] \in {"none", "viewport"}


\* C30: two distinct analysis requests never receive the same analysis_id,
\* requests that start within the same clock second included.
C30_AnalysisIdsDistinct ==
    \A r, q \in Requests :
        (r # q /\ reqs[r].kind = "master" /\ reqs[q].kind = "master") =>
            reqs[r].analysis_id # reqs[q].analysis_id

====
